---- MODULE Spec2Model ----
(***************************************************************************)
(* Model of the SQL generation of AstroX11/sqlite:                         *)
(*   src/src/generators/table-generator.ts  generateCreateTableSQL,        *)
(*                                          generateVirtualTableSQL        *)
(*   src/src/models/findAll.ts              findAll                        *)
(*                                                                         *)
(* A JavaScript string is modelled as a text: a sequence of atoms.  An     *)
(* atom is a literal fragment of a template (a keyword, a parenthesis, a   *)
(* comma), a caller-supplied string (a name, an expression), or the single *)
(* blank " ".  No atom other than " " starts or ends with white space, so  *)
(* String.prototype.trim removes exactly the leading and trailing " "      *)
(* atoms, and the empty string is the empty text.  Flatten turns a text    *)
(* into the string it stands for.                                          *)
(***************************************************************************)
EXTENDS Integers, Sequences, FiniteSets, TLC

VARIABLES def, call, result, options, query

vars == <<def, call, result, options, query>>

(***************************************************************************)
(* Bounds of the explored inputs.                                          *)
(***************************************************************************)
MaxAttrs == 2

MaxArgs == 2

MaxKeys == 2

(***************************************************************************)
(* Texts.                                                                  *)
(***************************************************************************)
SP == " "

RECURSIVE Flatten(_)
Flatten(text) ==
  IF text = << >> THEN "" ELSE Head(text) \o Flatten(Tail(text))

\* Array.prototype.join: the elements with the separator between neighbours.
RECURSIVE Join(_, _)
Join(parts, sep) ==
  IF parts = << >> THEN << >>
  ELSE IF Len(parts) = 1 THEN Head(parts)
  ELSE Head(parts) \o sep \o Join(Tail(parts), sep)

\* Array.prototype.filter(Boolean) on strings: the empty string is falsy.
FilterBoolean(parts) == SelectSeq(parts, LAMBDA p : p # << >>)

RECURSIVE TrimStart(_)
TrimStart(text) ==
  IF text # << >> /\ Head(text) = SP THEN TrimStart(Tail(text)) ELSE text

RECURSIVE TrimEnd(_)
TrimEnd(text) ==
  IF text # << >> /\ text[Len(text)] = SP
  THEN TrimEnd(SubSeq(text, 1, Len(text) - 1))
  ELSE text

\* String.prototype.trim
Trim(text) == TrimEnd(TrimStart(text))

\* An array of strings as an array of one-atom texts.
Texts(names) == [i \in 1..Len(names) |-> <<names[i]>>]

COMMA == <<",", SP>>

AND == <<SP, "AND", SP>>

(***************************************************************************)
(* The helpers imported from ./utils.js (table-generator.ts line 2), as    *)
(* the specification describes them.                                       *)
(***************************************************************************)
snakeCase(name) ==
  CASE name = "userId" -> "user_id"
    [] name = "createdAt" -> "created_at"
    [] OTHER -> name

mapDataType(type) ==
  CASE type = "STRING" -> "TEXT"
    [] type = "INTEGER" -> "INTEGER"
    [] type = "BOOLEAN" -> "INTEGER"
    [] OTHER -> type

\* Quotes strings, passes numbers through, NULL for null.
formatDefaultValue(v) ==
  CASE v.kind = "null" -> <<"NULL">>
    [] v.kind = "string" -> <<"'" \o v.text \o "'">>
    [] OTHER -> <<v.text>>

(***************************************************************************)
(* generateVirtualTableSQL, table-generator.ts 156-164.                     *)
(***************************************************************************)
Returned(sql) == [kind |-> "returned", sql |-> sql, error |-> ""]

Thrown(name, message) == [kind |-> "thrown", sql |-> << >>, error |-> name \o ": " \o message]

Pending == [kind |-> "pending", sql |-> << >>, error |-> ""]

\* IfNotExistsText with the test of options.ifNotExists lost
IfNotExistsTextAlways(d) == <<"IF NOT EXISTS", SP>>

\* `IF NOT EXISTS ` or the empty string
IfNotExistsText(d) ==
  IF d.options.ifNotExists THEN <<"IF NOT EXISTS", SP>> ELSE << >>

\* ${def.options.virtual.using}: an absent property renders as "undefined"
UsingText(virtual) ==
  IF virtual.hasUsing THEN <<virtual.using>> ELSE <<"undefined">>

\* def.options.virtual.args?.join(', ') || ''
ArgsText(virtual) ==
  IF virtual.hasArgs THEN Join(Texts(virtual.args), COMMA) ELSE << >>

generateVirtualTableSQL(d) ==
  IF ~d.options.virtual.present
  THEN Thrown("Error", "Virtual table options are required")
  ELSE Returned(<<"CREATE VIRTUAL TABLE", SP>> \o IfNotExistsText(d)
                \o <<d.tableName, SP, "USING", SP>> \o UsingText(d.options.virtual)
                \o <<SP, "(">> \o ArgsText(d.options.virtual) \o <<")">>)

(***************************************************************************)
(* generateCreateTableSQL, table-generator.ts 10-148.                       *)
(***************************************************************************)
\* JavaScript truthiness of attr.unique (boolean | string | {name}).
UniqueTruthy(u) ==
  CASE u.kind = "boolean" -> u.flag
    [] u.kind = "string" -> u.name # ""
    [] u.kind = "object" -> TRUE
    [] OTHER -> FALSE

\* JavaScript truthiness of options.primaryKey (string | string[]): an array,
\* even an empty one, is truthy; the empty string is not.
PrimaryKeyTruthy(pk) ==
  CASE pk.kind = "string" -> pk.name # ""
    [] pk.kind = "array" -> TRUE
    [] OTHER -> FALSE

\* line 21
ColName(d, attr) ==
  IF d.options.underscored THEN snakeCase(attr.name) ELSE attr.name

\* PrimaryKeyParts without the test of options.primaryKey
PrimaryKeyPartsIgnoringOptions(d, attr) ==
  IF attr.primaryKey
  THEN <<<<"PRIMARY KEY">>>> \o (IF attr.autoIncrement THEN <<<<"AUTOINCREMENT">>>> ELSE << >>)
  ELSE << >>

\* lines 26-32
PrimaryKeyParts(d, attr) ==
  IF attr.primaryKey
     /\ (~PrimaryKeyTruthy(d.options.primaryKey) \/ d.options.primaryKey.kind = "string")
  THEN <<<<"PRIMARY KEY">>>> \o (IF attr.autoIncrement THEN <<<<"AUTOINCREMENT">>>> ELSE << >>)
  ELSE << >>

\* line 34
NotNullParts(attr) ==
  IF attr.allowNull = "false" THEN <<<<"NOT NULL">>>> ELSE << >>

\* lines 36-38: the inline UNIQUE
UniqueParts(attr) ==
  IF UniqueTruthy(attr.unique) /\ attr.unique.kind = "boolean"
  THEN <<<<"UNIQUE">>>> ELSE << >>

\* NamedUniqueConstraints naming the attribute instead of the resolved column
NamedUniqueConstraintsOnAttributeName(d, attr) ==
  IF UniqueTruthy(attr.unique) /\ attr.unique.kind \in {"string", "object"} /\ attr.unique.name # ""
  THEN <<<<"CONSTRAINT", SP, attr.unique.name, SP, "UNIQUE", SP, "(", attr.name, ")">>>>
  ELSE << >>

\* lines 39-43: the named constraint deferred to the table constraints
NamedUniqueConstraints(d, attr) ==
  IF UniqueTruthy(attr.unique) /\ attr.unique.kind = "string"
  THEN <<<<"CONSTRAINT", SP, attr.unique.name, SP, "UNIQUE", SP, "(", ColName(d, attr), ")">>>>
  ELSE IF UniqueTruthy(attr.unique) /\ attr.unique.kind = "object" /\ attr.unique.name # ""
  THEN <<<<"CONSTRAINT", SP, attr.unique.name, SP, "UNIQUE", SP, "(", ColName(d, attr), ")">>>>
  ELSE << >>

\* lines 46-48
DefaultParts(attr) ==
  IF attr.defaultValue.kind # "undefined"
  THEN <<<<"DEFAULT", SP>> \o formatDefaultValue(attr.defaultValue)>>
  ELSE << >>

\* line 50
CheckParts(attr) ==
  IF attr.check # "" THEN <<<<"CHECK", SP, "(", attr.check, ")">>>> ELSE << >>

\* lines 53-55
CollateParts(attr) ==
  IF mapDataType(attr.type) = "TEXT" /\ attr.collate # ""
  THEN <<<<"COLLATE", SP, attr.collate>>>> ELSE << >>

\* lines 58-64
GeneratedParts(attr) ==
  IF attr.generated.present
  THEN <<<<"GENERATED ALWAYS AS", SP, "(", attr.generated.expression, ")", SP,
           IF attr.generated.stored THEN "STORED" ELSE "VIRTUAL">>>>
  ELSE << >>

\* lines 67-76
ReferencesParts(attr) ==
  IF attr.references.present
  THEN <<<<"REFERENCES", SP, attr.references.table, "(", attr.references.column, ")">>>>
       \o (IF attr.onDelete # "" THEN <<<<"ON DELETE", SP, attr.onDelete>>>> ELSE << >>)
       \o (IF attr.onUpdate # "" THEN <<<<"ON UPDATE", SP, attr.onUpdate>>>> ELSE << >>)
       \o (IF attr.deferrable
           THEN <<<<"DEFERRABLE INITIALLY", SP,
                    IF attr.deferred THEN "DEFERRED" ELSE "IMMEDIATE">>>>
           ELSE << >>)
  ELSE << >>

\* ColumnParts with NOT NULL pushed before PRIMARY KEY
ColumnPartsNotNullFirst(d, attr) ==
  <<<<ColName(d, attr)>>, <<mapDataType(attr.type)>>>>
  \o NotNullParts(attr)
  \o PrimaryKeyParts(d, attr)
  \o UniqueParts(attr)
  \o DefaultParts(attr)
  \o CheckParts(attr)
  \o CollateParts(attr)
  \o GeneratedParts(attr)
  \o ReferencesParts(attr)

\* lines 21-78: parts.join(' ')
ColumnParts(d, attr) ==
  <<<<ColName(d, attr)>>, <<mapDataType(attr.type)>>>>
  \o PrimaryKeyParts(d, attr)
  \o NotNullParts(attr)
  \o UniqueParts(attr)
  \o DefaultParts(attr)
  \o CheckParts(attr)
  \o CollateParts(attr)
  \o GeneratedParts(attr)
  \o ReferencesParts(attr)

ColumnDefinition(d, attr) == Join(ColumnParts(d, attr), <<SP>>)

\* lines 20-79: one column per attribute, in the attribute map's order
Columns(d) ==
  [i \in 1..Len(d.attributes) |-> ColumnDefinition(d, d.attributes[i])]

RECURSIVE AttributeConstraints(_, _)
AttributeConstraints(d, attrs) ==
  IF attrs = << >> THEN << >>
  ELSE NamedUniqueConstraints(d, Head(attrs)) \o AttributeConstraints(d, Tail(attrs))

\* def.attributes[name]?.primaryKey
AttributeIsPrimaryKey(d, name) ==
  \E i \in 1..Len(d.attributes) :
    d.attributes[i].name = name /\ d.attributes[i].primaryKey

\* lines 82-92
PrimaryKeyConstraints(d) ==
  LET pk == d.options.primaryKey IN
  IF ~PrimaryKeyTruthy(pk) THEN << >>
  ELSE IF pk.kind = "array"
  THEN <<<<"PRIMARY KEY", SP, "(">> \o Join(Texts(pk.names), COMMA) \o <<")">>>>
  ELSE IF ~AttributeIsPrimaryKey(d, pk.name)
  THEN <<<<"PRIMARY KEY", SP, "(", pk.name, ")">>>>
  ELSE << >>

\* lines 97-103
UniqueConstraint(u) ==
  IF Len(u.fields) > 0
  THEN <<<<"CONSTRAINT", SP, u.name, SP, "UNIQUE", SP, "(">>
         \o Join(Texts(u.fields), COMMA) \o <<")">>>>
  ELSE << >>

\* lines 106-110
CheckConstraint(c) ==
  <<<<"CONSTRAINT", SP, c.name, SP, "CHECK", SP, "(", c.expression, ")">>>>

\* lines 117-121: references.fields is an array or a single name
ReferencedFields(refs) ==
  IF refs.isArray THEN Join(Texts(refs.fields), COMMA) ELSE <<refs.field>>

\* ForeignKeyConstraint without the test of fk.fields.length
ForeignKeyConstraintUnguarded(fk) ==
  IF fk.hasReferences
  THEN <<<<"CONSTRAINT", SP, fk.name, SP, "FOREIGN KEY", SP, "(">>
         \o Join(Texts(fk.fields), COMMA) \o <<")", SP>>
         \o <<"REFERENCES", SP, fk.references.table, "(">>
         \o ReferencedFields(fk.references) \o <<")">>
         \o (IF fk.onDelete # "" THEN <<SP, "ON DELETE", SP, fk.onDelete>> ELSE << >>)
         \o (IF fk.onUpdate # "" THEN <<SP, "ON UPDATE", SP, fk.onUpdate>> ELSE << >>)
         \o (IF fk.deferrable
             THEN <<SP, "DEFERRABLE INITIALLY", SP,
                    IF fk.deferred THEN "DEFERRED" ELSE "IMMEDIATE">>
             ELSE << >>)>>
  ELSE << >>

\* lines 114-131
ForeignKeyConstraint(fk) ==
  IF Len(fk.fields) > 0 /\ fk.hasReferences
  THEN <<<<"CONSTRAINT", SP, fk.name, SP, "FOREIGN KEY", SP, "(">>
         \o Join(Texts(fk.fields), COMMA) \o <<")", SP>>
         \o <<"REFERENCES", SP, fk.references.table, "(">>
         \o ReferencedFields(fk.references) \o <<")">>
         \o (IF fk.onDelete # "" THEN <<SP, "ON DELETE", SP, fk.onDelete>> ELSE << >>)
         \o (IF fk.onUpdate # "" THEN <<SP, "ON UPDATE", SP, fk.onUpdate>> ELSE << >>)
         \o (IF fk.deferrable
             THEN <<SP, "DEFERRABLE INITIALLY", SP,
                    IF fk.deferred THEN "DEFERRED" ELSE "IMMEDIATE">>
             ELSE << >>)>>
  ELSE << >>

RECURSIVE FlatMap(_, _)
FlatMap(Op(_), entries) ==
  IF entries = << >> THEN << >>
  ELSE Op(Head(entries)) \o FlatMap(Op, Tail(entries))

\* lines 95-133
OptionConstraints(d) ==
  LET c == d.options.constraints IN
  IF ~c.present THEN << >>
  ELSE (IF c.hasUnique THEN FlatMap(UniqueConstraint, c.unique) ELSE << >>)
       \o (IF c.hasCheck THEN FlatMap(CheckConstraint, c.check) ELSE << >>)
       \o (IF c.hasForeignKey THEN FlatMap(ForeignKeyConstraint, c.foreignKey) ELSE << >>)

\* tableConstraints, in the order the code pushes them
TableConstraints(d) ==
  AttributeConstraints(d, d.attributes) \o PrimaryKeyConstraints(d) \o OptionConstraints(d)

\* line 136
AllDefinitions(d) == Columns(d) \o TableConstraints(d)

\* lines 139-143
TableOptions(d) ==
  FilterBoolean(<<IF d.options.strict THEN <<"STRICT">> ELSE << >>,
                  IF d.options.withoutRowid THEN <<"WITHOUT ROWID">> ELSE << >>,
                  IF d.options.temporary THEN <<"TEMPORARY">> ELSE << >>>>)

\* CreateTableText without the final trim()
CreateTableTextUntrimmed(d) ==
  <<"CREATE TABLE", SP>> \o IfNotExistsText(d) \o <<d.tableName, SP, "(">>
  \o Join(AllDefinitions(d), COMMA) \o <<")", SP>>
  \o Join(TableOptions(d), <<SP>>)

\* lines 145-147
CreateTableText(d) ==
  Trim(<<"CREATE TABLE", SP>> \o IfNotExistsText(d) \o <<d.tableName, SP, "(">>
       \o Join(AllDefinitions(d), COMMA) \o <<")", SP>>
       \o Join(TableOptions(d), <<SP>>))

\* generateCreateTableSQL without the early return for virtual tables
generateCreateTableSQLWithoutEarlyReturn(d) == Returned(CreateTableText(d))

generateCreateTableSQL(d) ==
  IF d.options.virtual.present
  THEN generateVirtualTableSQL(d)
  ELSE Returned(CreateTableText(d))

(***************************************************************************)
(* The model definitions explored (ModelDefinition of ../Types.mjs, as the *)
(* generator reads it).  An absent string property is "", an absent flag   *)
(* FALSE, an absent object has present = FALSE; the generator tests those  *)
(* for truthiness only.  Attribute maps and constraint maps are sequences  *)
(* in insertion order, the order Object.entries yields.                    *)
(***************************************************************************)
AttributeNames == <<"id", "userId", "email", "createdAt">>

ArgNames == <<"title", "body", "tags">>

Prefixes(names, n) == {SubSeq(names, 1, k) : k \in 0..n}

NoUnique == [kind |-> "undefined", flag |-> FALSE, name |-> ""]

UniqueValues ==
  {NoUnique,
   [kind |-> "boolean", flag |-> TRUE, name |-> ""],
   [kind |-> "boolean", flag |-> FALSE, name |-> ""],
   [kind |-> "string", flag |-> FALSE, name |-> "uq_login"],
   [kind |-> "string", flag |-> FALSE, name |-> ""],
   [kind |-> "object", flag |-> FALSE, name |-> "uq_handle"],
   [kind |-> "object", flag |-> FALSE, name |-> ""]}

NoDefault == [kind |-> "undefined", text |-> ""]

DefaultValues ==
  {NoDefault,
   [kind |-> "null", text |-> ""],
   [kind |-> "string", text |-> "guest"],
   [kind |-> "number", text |-> "0"]}

NoGenerated == [present |-> FALSE, expression |-> "", stored |-> FALSE]

GeneratedValues ==
  {NoGenerated} \cup [present : {TRUE}, expression : {"lower(id)"}, stored : BOOLEAN]

NoReferences == [present |-> FALSE, table |-> "", column |-> ""]

ReferencesValues == {NoReferences, [present |-> TRUE, table |-> "Accounts", column |-> "id"]}

\* The clauses up to CHECK, and the clauses from COLLATE on.
HeadProfiles ==
  [primaryKey : BOOLEAN, autoIncrement : BOOLEAN, allowNull : {"undefined", "true", "false"},
   unique : {u \in UniqueValues : u.kind \in {"undefined", "boolean"}},
   defaultValue : DefaultValues, check : {"", "length(id) > 0"}]

TailProfiles ==
  [type : {"STRING", "INTEGER"}, collate : {"", "NOCASE"}, generated : GeneratedValues,
   references : ReferencesValues, onDelete : {"", "CASCADE"}, onUpdate : {"", "SET NULL"},
   deferrable : BOOLEAN, deferred : BOOLEAN]

HeadNone ==
  [primaryKey |-> FALSE, autoIncrement |-> FALSE, allowNull |-> "undefined",
   unique |-> NoUnique, defaultValue |-> NoDefault, check |-> ""]

HeadAll ==
  [primaryKey |-> TRUE, autoIncrement |-> TRUE, allowNull |-> "false",
   unique |-> [kind |-> "boolean", flag |-> TRUE, name |-> ""],
   defaultValue |-> [kind |-> "string", text |-> "guest"], check |-> "length(id) > 0"]

TailNone ==
  [type |-> "STRING", collate |-> "", generated |-> NoGenerated, references |-> NoReferences,
   onDelete |-> "", onUpdate |-> "", deferrable |-> FALSE, deferred |-> FALSE]

TailAll ==
  [type |-> "STRING", collate |-> "NOCASE",
   generated |-> [present |-> TRUE, expression |-> "lower(id)", stored |-> TRUE],
   references |-> [present |-> TRUE, table |-> "Accounts", column |-> "id"],
   onDelete |-> "CASCADE", onUpdate |-> "SET NULL", deferrable |-> TRUE, deferred |-> TRUE]

Attribute(name, head, tail) ==
  [name |-> name, type |-> tail.type, primaryKey |-> head.primaryKey,
   autoIncrement |-> head.autoIncrement, allowNull |-> head.allowNull,
   unique |-> head.unique, defaultValue |-> head.defaultValue, check |-> head.check,
   collate |-> tail.collate, generated |-> tail.generated, references |-> tail.references,
   onDelete |-> tail.onDelete, onUpdate |-> tail.onUpdate,
   deferrable |-> tail.deferrable, deferred |-> tail.deferred]

NoVirtual == [present |-> FALSE, hasUsing |-> FALSE, using |-> "", hasArgs |-> FALSE, args |-> << >>]

VirtualValues ==
  {NoVirtual}
  \cup [present : {TRUE}, hasUsing : {TRUE}, using : {"fts5"}, hasArgs : {TRUE},
        args : Prefixes(ArgNames, MaxArgs)]
  \cup {[present |-> TRUE, hasUsing |-> TRUE, using |-> "rtree", hasArgs |-> FALSE, args |-> << >>],
        [present |-> TRUE, hasUsing |-> FALSE, using |-> "", hasArgs |-> FALSE, args |-> << >>],
        [present |-> TRUE, hasUsing |-> FALSE, using |-> "", hasArgs |-> TRUE, args |-> <<"title">>]}

NoPrimaryKey == [kind |-> "undefined", name |-> "", names |-> << >>]

StringKey(name) == [kind |-> "string", name |-> name, names |-> << >>]

ArrayKey(names) == [kind |-> "array", name |-> "", names |-> names]

\* The sequences of distinct names among the first n attribute names.
DistinctLists(n) ==
  {l \in UNION {[1..k -> {AttributeNames[i] : i \in 1..n}] : k \in 0..n} :
     \A i, j \in 1..Len(l) : i # j => l[i] # l[j]}

PrimaryKeyValues ==
  {NoPrimaryKey}
  \cup {StringKey(AttributeNames[i]) : i \in 1..MaxAttrs + 1}
  \cup {ArrayKey(l) : l \in DistinctLists(MaxAttrs)}

NoConstraints ==
  [present |-> FALSE, hasUnique |-> FALSE, unique |-> << >>, hasCheck |-> FALSE, check |-> << >>,
   hasForeignKey |-> FALSE, foreignKey |-> << >>]

FieldLists == {<< >>, <<"id">>, <<"id", "userId">>}

UniqueEntry(name, fields) == [name |-> name, fields |-> fields]

UniqueMaps ==
  {<< >>}
  \cup {<<UniqueEntry("uq_pair", f)>> : f \in FieldLists}
  \cup {<<UniqueEntry("uq_pair", f), UniqueEntry("uq_other", g)>> :
          f \in {<< >>, <<"id">>}, g \in {<< >>, <<"userId">>}}

CheckEntry(name, expression) == [name |-> name, expression |-> expression]

CheckMaps ==
  {<< >>, <<CheckEntry("ck_id", "id <> ''")>>,
   <<CheckEntry("ck_id", "id <> ''"), CheckEntry("ck_len", "length(id) < 64")>>}

NoForeignReferences == [table |-> "", isArray |-> FALSE, fields |-> << >>, field |-> ""]

ForeignReferences ==
  {[table |-> "Accounts", isArray |-> TRUE, fields |-> <<"id">>, field |-> ""],
   [table |-> "Accounts", isArray |-> TRUE, fields |-> <<"id", "tenant">>, field |-> ""],
   [table |-> "Accounts", isArray |-> FALSE, fields |-> << >>, field |-> "id"]}

ForeignKeyEntries(name) ==
  [name : {name}, fields : FieldLists, hasReferences : {TRUE}, references : ForeignReferences,
   onDelete : {"", "CASCADE"}, onUpdate : {"", "RESTRICT"}, deferrable : BOOLEAN,
   deferred : BOOLEAN]
  \cup [name : {name}, fields : FieldLists, hasReferences : {FALSE},
        references : {NoForeignReferences}, onDelete : {"", "CASCADE"}, onUpdate : {""},
        deferrable : {FALSE}, deferred : {FALSE}]

\* A plain entry: emitted when its field list is not empty.
PlainForeignKey(name, fields) ==
  [name |-> name, fields |-> fields, hasReferences |-> TRUE,
   references |-> [table |-> "Accounts", isArray |-> TRUE, fields |-> <<"id">>, field |-> ""],
   onDelete |-> "", onUpdate |-> "", deferrable |-> FALSE, deferred |-> FALSE]

ForeignKeyMaps ==
  {<< >>}
  \cup {<<e>> : e \in ForeignKeyEntries("fk_account")}
  \cup {<<PlainForeignKey("fk_account", f), PlainForeignKey("fk_owner", g)>> :
          f \in {<< >>, <<"id">>}, g \in {<< >>, <<"userId">>}}

Constraints(hasUnique, unique, hasCheck, check, hasForeignKey, foreignKey) ==
  [present |-> TRUE, hasUnique |-> hasUnique, unique |-> unique, hasCheck |-> hasCheck,
   check |-> check, hasForeignKey |-> hasForeignKey, foreignKey |-> foreignKey]

ConstraintValues ==
  {NoConstraints, Constraints(FALSE, << >>, FALSE, << >>, FALSE, << >>)}
  \cup {Constraints(TRUE, u, TRUE, c, TRUE, f) :
          u \in UniqueMaps, c \in {m \in CheckMaps : Len(m) <= 1}, f \in ForeignKeyMaps}
  \cup {Constraints(TRUE, u, TRUE, c, FALSE, << >>) : u \in UniqueMaps, c \in CheckMaps}

Options(virtual, underscored, primaryKey, constraints, modifiers, ifNotExists) ==
  [virtual |-> virtual, underscored |-> underscored, primaryKey |-> primaryKey,
   constraints |-> constraints, strict |-> modifiers.strict,
   withoutRowid |-> modifiers.withoutRowid, temporary |-> modifiers.temporary,
   ifNotExists |-> ifNotExists]

NoModifiers == [strict |-> FALSE, withoutRowid |-> FALSE, temporary |-> FALSE]

Modifiers == [strict : BOOLEAN, withoutRowid : BOOLEAN, temporary : BOOLEAN]

Definition(tableName, attributes, opts) ==
  [tableName |-> tableName, attributes |-> attributes, options |-> opts]

\* One attribute, every combination of the clauses of one half beside none or all
\* of the clauses of the other half.
ColumnProfiles ==
  {<<h, t>> : h \in HeadProfiles, t \in {TailNone, TailAll}}
  \cup {<<h, t>> : h \in {HeadNone, HeadAll}, t \in TailProfiles}

ColumnDefinitions ==
  {Definition("Users", <<Attribute(n[1], p[1], p[2])>>,
              Options(NoVirtual, n[2], NoPrimaryKey, NoConstraints, NoModifiers, FALSE)) :
     n \in {<<"id", FALSE>>, <<"userId", TRUE>>}, p \in ColumnProfiles}

\* Attribute maps of 1..MaxAttrs attributes, the i-th named AttributeNames[i],
\* with heads drawn from a set of profiles.
AttributeMaps(heads) ==
  UNION {{[i \in 1..k |-> Attribute(AttributeNames[i], f[i], TailNone)] : f \in [1..k -> heads]} :
           k \in 1..MaxAttrs}

KeyHeads ==
  {[HeadNone EXCEPT !.primaryKey = k[1], !.autoIncrement = k[2], !.allowNull = k[3]] :
     k \in {<<FALSE, FALSE, "undefined">>, <<TRUE, FALSE, "false">>, <<TRUE, TRUE, "undefined">>}}

\* A single-name key names one of the attributes.
KeyDefinitions ==
  {Definition("Users", p[1],
              Options(NoVirtual, FALSE, p[2], NoConstraints, NoModifiers, FALSE)) :
     p \in {q \in AttributeMaps(KeyHeads) \X PrimaryKeyValues :
              q[2].kind = "string" => \E i \in 1..Len(q[1]) : q[1][i].name = q[2].name}}

UniqueHeads == {[HeadNone EXCEPT !.unique = u] : u \in UniqueValues}

SomeConstraints ==
  Constraints(TRUE, <<UniqueEntry("uq_pair", <<"id", "userId">>)>>,
              TRUE, <<CheckEntry("ck_id", "id <> ''")>>,
              TRUE, <<PlainForeignKey("fk_account", <<"userId">>)>>)

UniqueDefinitions ==
  {Definition("Users", a, Options(NoVirtual, u, pk, c, NoModifiers, FALSE)) :
     a \in AttributeMaps(UniqueHeads), u \in BOOLEAN,
     pk \in {NoPrimaryKey, StringKey("id"), ArrayKey(<<"id">>)},
     c \in {NoConstraints, SomeConstraints}}

NamedUniqueHead ==
  [HeadNone EXCEPT !.unique = [kind |-> "string", flag |-> FALSE, name |-> "uq_login"]]

ConstraintDefinitions ==
  {Definition("Users", <<Attribute("id", NamedUniqueHead, TailNone)>>,
              Options(NoVirtual, FALSE, pk, c, NoModifiers, FALSE)) :
     pk \in {NoPrimaryKey, ArrayKey(<<"id">>)}, c \in ConstraintValues}

\* The attributes of src/test.js
TestAttributes ==
  <<Attribute("id", [HeadNone EXCEPT !.primaryKey = TRUE, !.allowNull = "false"], TailNone),
    Attribute("username",
              [HeadNone EXCEPT !.allowNull = "false",
                               !.unique = [kind |-> "boolean", flag |-> TRUE, name |-> ""]],
              TailNone)>>

TableDefinitions ==
  {Definition(n, a, Options(v, FALSE, o[1], o[2], m, e)) :
     n \in {"t", "Users"}, a \in {<< >>, SubSeq(TestAttributes, 1, 1), TestAttributes},
     v \in VirtualValues, o \in {<<NoPrimaryKey, NoConstraints>>, <<ArrayKey(<<"id">>), SomeConstraints>>},
     m \in Modifiers, e \in BOOLEAN}

Definitions ==
  ColumnDefinitions \cup KeyDefinitions \cup UniqueDefinitions \cup ConstraintDefinitions
  \cup TableDefinitions

(***************************************************************************)
(* findAll, findAll.ts 9-62.                                                *)
(***************************************************************************)
WhereKeys == <<"id", "name", "age">>

Undefined == [kind |-> "undefined", text |-> ""]

Null == [kind |-> "null", text |-> ""]

WhereValues ==
  {Undefined, Null,
   [kind |-> "string", text |-> "ada"],
   [kind |-> "number", text |-> "7"],
   [kind |-> "boolean", text |-> "true"],
   [kind |-> "boolean", text |-> "false"]}

\* The helpers imported from ../utils/queryHelpers.js (findAll.ts line 4): the
\* values SQLite cannot bind are converted (null and undefined to NULL,
\* booleans to 0 and 1).
convertValueForSQLite(v) ==
  CASE v.kind = "undefined" -> Null
    [] v.kind = "boolean" -> [kind |-> "number", text |-> IF v.text = "true" THEN "1" ELSE "0"]
    [] OTHER -> v

\* safeGet(options.where, key): the property, by key
safeGet(where, key) ==
  LET i == CHOOSE i \in 1..Len(where) : where[i].key = key IN where[i].value

\* lines 21-30: the clause of each key whose value is not undefined
RECURSIVE WhereClauses(_, _)
WhereClauses(where, entries) ==
  IF entries = << >> THEN << >>
  ELSE IF Head(entries).value.kind = "undefined" THEN WhereClauses(where, Tail(entries))
  ELSE LET key == Head(entries).key
           value == convertValueForSQLite(safeGet(where, key))
       IN  <<IF value.kind = "null" THEN <<key, SP, "IS NULL">> ELSE <<key, SP, "=", SP, "?">>>>
           \o WhereClauses(where, Tail(entries))

\* WhereValuesPushed with values.push before the test for null
RECURSIVE WhereValuesPushedBeforeNullTest(_, _)
WhereValuesPushedBeforeNullTest(where, entries) ==
  IF entries = << >> THEN << >>
  ELSE IF Head(entries).value.kind = "undefined"
  THEN WhereValuesPushedBeforeNullTest(where, Tail(entries))
  ELSE <<convertValueForSQLite(safeGet(where, Head(entries).key))>>
       \o WhereValuesPushedBeforeNullTest(where, Tail(entries))

\* lines 24-28: the values pushed, in the order of the clauses
RECURSIVE WhereValuesPushed(_, _)
WhereValuesPushed(where, entries) ==
  IF entries = << >> THEN << >>
  ELSE IF Head(entries).value.kind = "undefined" THEN WhereValuesPushed(where, Tail(entries))
  ELSE LET value == convertValueForSQLite(safeGet(where, Head(entries).key))
       IN  (IF value.kind = "null" THEN << >> ELSE <<value>>)
           \o WhereValuesPushed(where, Tail(entries))

\* lines 20-35
WhereText(o) ==
  IF o.hasWhere /\ WhereClauses(o.where, o.where) # << >>
  THEN <<SP, "WHERE", SP>> \o Join(WhereClauses(o.where, o.where), AND)
  ELSE << >>

\* lines 37-45
OrderClauses(order) ==
  LET kept == SelectSeq(order, LAMBDA e : e.col # "") IN
  [i \in 1..Len(kept) |-> <<kept[i].col, SP, IF kept[i].dir = "DESC" THEN "DESC" ELSE "ASC">>]

OrderText(o) ==
  IF o.hasOrder /\ OrderClauses(o.order) # << >>
  THEN <<SP, "ORDER BY", SP>> \o Join(OrderClauses(o.order), COMMA)
  ELSE << >>

\* lines 47-53
LimitText(o) ==
  IF o.limit.defined /\ o.limit.value >= 0
  THEN <<SP, "LIMIT", SP, ToString(o.limit.value)>> ELSE << >>

OffsetText(o) ==
  IF o.offset.defined /\ o.offset.value >= 0
  THEN <<SP, "OFFSET", SP, ToString(o.offset.value)>> ELSE << >>

FindAllSQL(d, o) ==
  <<"SELECT * FROM", SP, d.tableName>> \o WhereText(o) \o OrderText(o) \o LimitText(o)
  \o OffsetText(o)

FindAllValues(o) ==
  IF o.hasWhere THEN WhereValuesPushed(o.where, o.where) ELSE << >>

\* Where objects of up to MaxKeys keys, the i-th key WhereKeys[i].
WhereObjects ==
  UNION {{[i \in 1..k |-> [key |-> WhereKeys[i], value |-> f[i]]] : f \in [1..k -> WhereValues]} :
           k \in 0..MaxKeys}

NoNumber == [defined |-> FALSE, value |-> 0]

Number(n) == [defined |-> TRUE, value |-> n]

OrderValues ==
  {<< >>, <<[col |-> "name", dir |-> "DESC"]>>,
   <<[col |-> "", dir |-> "ASC"], [col |-> "id", dir |-> "ASC"]>>}

FindOptions ==
  [hasWhere : {TRUE}, where : WhereObjects, hasOrder : {FALSE}, order : {<< >>},
   limit : {NoNumber, Number(10)}, offset : {NoNumber}]
  \cup [hasWhere : {FALSE}, where : {<< >>}, hasOrder : {TRUE}, order : OrderValues,
        limit : {NoNumber, Number(0 - 1), Number(0), Number(10)},
        offset : {NoNumber, Number(0 - 1), Number(5)}]
  \cup [hasWhere : {TRUE}, where : {w \in WhereObjects : Len(w) = 1}, hasOrder : {TRUE},
        order : OrderValues, limit : {Number(10)}, offset : {Number(5)}]

NoFindOptions ==
  [hasWhere |-> FALSE, where |-> << >>, hasOrder |-> FALSE, order |-> << >>,
   limit |-> NoNumber, offset |-> NoNumber]

NoQuery == [sql |-> << >>, values |-> << >>, bound |-> << >>, outcome |-> "none"]

(***************************************************************************)
(* The generator: a definition is given, and one of the two exported       *)
(* functions is called on it.                                              *)
(***************************************************************************)
Init ==
  /\ def \in Definitions
  /\ call = "none"
  /\ result = Pending
  /\ options = NoFindOptions
  /\ query = NoQuery

GenerateCreateTableSQL ==
  /\ call = "none"
  /\ call' = "generateCreateTableSQL"
  /\ result' = generateCreateTableSQL(def)
  /\ UNCHANGED <<def, options, query>>

GenerateVirtualTableSQL ==
  /\ call = "none"
  /\ call' = "generateVirtualTableSQL"
  /\ result' = generateVirtualTableSQL(def)
  /\ UNCHANGED <<def, options, query>>

Next == GenerateCreateTableSQL \/ GenerateVirtualTableSQL

Spec == Init /\ [][Next]_vars

(***************************************************************************)
(* findAll of a model: db.prepare(sql) and stmt.all(...values) are the     *)
(* driver's; a failure of either is logged and rethrown.                   *)
(***************************************************************************)
FindInit ==
  /\ def = Definition("Users", TestAttributes,
                      Options(NoVirtual, FALSE, NoPrimaryKey, NoConstraints, NoModifiers, FALSE))
  /\ call = "none"
  /\ result = Pending
  /\ options \in FindOptions
  /\ query = NoQuery

FindAll ==
  /\ call = "none"
  /\ call' = "findAll"
  /\ \E ok \in BOOLEAN :
       query' = [sql |-> FindAllSQL(def, options), values |-> FindAllValues(options),
                 bound |-> FindAllValues(options),
                 outcome |-> IF ok THEN "rows" ELSE "thrown"]
  /\ UNCHANGED <<def, result, options>>

FindNext == FindAll

FindSpec == FindInit /\ [][FindNext]_vars

(***************************************************************************)
(* Reading a generated statement back.                                     *)
(***************************************************************************)
Count(text, atom) == Cardinality({i \in 1..Len(text) : text[i] = atom})

StartsWith(text, prefix) ==
  Len(text) >= Len(prefix) /\ SubSeq(text, 1, Len(prefix)) = prefix

\* The number of parentheses open after the first i atoms.
Depth(text, i) ==
  Cardinality({j \in 1..i : text[j] = "("}) - Cardinality({j \in 1..i : text[j] = ")"})

\* The positions that open a parenthesized list at the top level.
TopLevelLists(text) == {i \in 1..Len(text) : text[i] = "(" /\ Depth(text, i - 1) = 0}

\* The items of the first top-level parenthesized list: the texts between its
\* parentheses, cut at each ", " that is not nested.
Items(text) ==
  LET n == Len(text)
      opens == TopLevelLists(text)
      open == CHOOSE i \in opens : \A j \in opens : i <= j
      closes == {j \in (open + 1)..n : text[j] = ")" /\ Depth(text, j) = 0}
      close == CHOOSE j \in closes : \A k \in closes : j <= k
      seps == {i \in (open + 1)..(close - 2) :
                 text[i] = "," /\ text[i + 1] = SP /\ Depth(text, i) = 1}
      cut == [k \in 1..Cardinality(seps) |->
                CHOOSE c \in seps : Cardinality({t \in seps : t < c}) = k - 1]
      first(k) == IF k = 1 THEN open + 1 ELSE cut[k - 1] + 2
      last(k) == IF k = Cardinality(seps) + 1 THEN close - 1 ELSE cut[k] - 1
  IN  IF opens = {} \/ closes = {} \/ close = open + 1 THEN << >>
      ELSE [k \in 1..(Cardinality(seps) + 1) |-> SubSeq(text, first(k), last(k))]

\* An item is well formed: not empty, no blank at either end, no two blanks
\* in a row, no comma at either end.
WellFormed(item) ==
  /\ item # << >>
  /\ Head(item) \notin {SP, ","}
  /\ item[Len(item)] \notin {SP, ","}
  /\ \A i \in 1..Len(item) - 1 : ~(item[i] = SP /\ item[i + 1] = SP)

\* The number of atoms of the items together.
RECURSIVE SumLen(_)
SumLen(items) == IF items = << >> THEN 0 ELSE Len(Head(items)) + SumLen(Tail(items))

\* The names c1, c2, ... written "c1, c2, ...".
Listed(names) ==
  [i \in 1..(3 * Len(names) - 2) |->
     IF i % 3 = 1 THEN names[(i + 2) \div 3] ELSE IF i % 3 = 2 THEN "," ELSE SP]

\* The call of generateCreateTableSQL on a definition that is not virtual.
NormalPath == call = "generateCreateTableSQL" /\ ~def.options.virtual.present

(***************************************************************************)
(* C1: a definition whose options.virtual is present but has no `using`    *)
(* makes generateCreateTableSQL and generateVirtualTableSQL throw an       *)
(* InvalidVirtualTableSpec error and return no SQL; on every other         *)
(* definition generateCreateTableSQL returns a string.  The code never     *)
(* looks at `using` before rendering it.                                   *)
(***************************************************************************)
C1_MissingUsingIsRejected ==
  /\ (call # "none" /\ def.options.virtual.present /\ ~def.options.virtual.hasUsing)
       => (result.kind = "thrown" /\ result.sql = << >>)
  /\ (call = "generateCreateTableSQL"
        /\ ~(def.options.virtual.present /\ ~def.options.virtual.hasUsing))
       => result.kind = "returned"

(***************************************************************************)
(* C2: with options.primaryKey a non-empty array of column names, whatever *)
(* the primaryKey and autoIncrement flags of the attributes, the statement *)
(* holds exactly one PRIMARY KEY clause, the table constraint              *)
(* PRIMARY KEY (c1, c2, ...) with the names in the declared order, and no  *)
(* column definition carries PRIMARY KEY or AUTOINCREMENT.                 *)
(***************************************************************************)
CompositeKeyDeclared ==
  NormalPath /\ def.options.primaryKey.kind = "array" /\ def.options.primaryKey.names # << >>

C2_CompositeKeyIsTheOnlyPrimaryKey ==
  CompositeKeyDeclared =>
    LET items == Items(result.sql)
        names == def.options.primaryKey.names
        constraint == <<"PRIMARY KEY", SP, "(">> \o Listed(names) \o <<")">>
    IN  /\ result.kind = "returned"
        /\ Count(result.sql, "PRIMARY KEY") = 1
        /\ Count(result.sql, "AUTOINCREMENT") = 0
        /\ Len(items) >= Len(def.attributes)
        /\ \A i \in 1..Len(def.attributes) : Count(items[i], "PRIMARY KEY") = 0
        /\ Cardinality({i \in 1..Len(items) : items[i] = constraint}) = 1

C2_Witness ==
  /\ CompositeKeyDeclared
  /\ Len(def.options.primaryKey.names) = 2
  /\ \E i \in 1..Len(def.attributes) :
       def.attributes[i].primaryKey /\ def.attributes[i].autoIncrement
  /\ result.kind = "returned"

(***************************************************************************)
(* C3: with options.primaryKey a single column name, the statement holds   *)
(* exactly one PRIMARY KEY clause for every combination of primaryKey      *)
(* flags: the column-level one when the named column is flagged, the table *)
(* constraint PRIMARY KEY (name) otherwise.  The code suppresses the table *)
(* constraint for the named column only, and never the column-level clause *)
(* of another flagged column.                                              *)
(***************************************************************************)
SingleKeyDeclared ==
  NormalPath /\ def.options.primaryKey.kind = "string" /\ def.options.primaryKey.name # ""

C3_SingleKeyEmitsOnePrimaryKey ==
  SingleKeyDeclared =>
    LET items == Items(result.sql)
        name == def.options.primaryKey.name
        flagged == \E i \in 1..Len(def.attributes) :
                     def.attributes[i].name = name /\ def.attributes[i].primaryKey
        tableLevel == {i \in 1..Len(items) : items[i] = <<"PRIMARY KEY", SP, "(", name, ")">>}
    IN  /\ Count(result.sql, "PRIMARY KEY") = 1
        /\ Cardinality(tableLevel) = (IF flagged THEN 0 ELSE 1)

(***************************************************************************)
(* C4: with options.virtual set and a `using` module, the statement is     *)
(* exactly CREATE VIRTUAL TABLE [IF NOT EXISTS ]<tableName> USING <module> *)
(* (<args joined by ", ">), with () when args is absent or empty; nothing  *)
(* of the attributes, options.primaryKey, options.constraints or the       *)
(* strict, withoutRowid and temporary modifiers appears in it.  With       *)
(* using fts5, args [title, body] and table t it is                        *)
(* CREATE VIRTUAL TABLE t USING fts5 (title, body).                        *)
(***************************************************************************)
VirtualPath ==
  call # "none" /\ def.options.virtual.present /\ def.options.virtual.hasUsing

C4_VirtualTableStatement ==
  VirtualPath =>
    LET v == def.options.virtual
        args == IF v.hasArgs /\ v.args # << >> THEN Listed(v.args) ELSE << >>
    IN  /\ result.kind = "returned"
        /\ result.sql = <<"CREATE VIRTUAL TABLE", SP>>
                        \o (IF def.options.ifNotExists THEN <<"IF NOT EXISTS", SP>> ELSE << >>)
                        \o <<def.tableName, SP, "USING", SP, v.using, SP, "(">> \o args \o <<")">>
        /\ (def.tableName = "t" /\ v.using = "fts5" /\ v.args = <<"title", "body">>
              /\ ~def.options.ifNotExists)
             => Flatten(result.sql) = "CREATE VIRTUAL TABLE t USING fts5 (title, body)"

C4_Witness ==
  /\ call = "generateCreateTableSQL"
  /\ VirtualPath
  /\ def.options.virtual.args = <<"title", "body">>
  /\ def.tableName = "t"
  /\ ~def.options.ifNotExists
  /\ Len(def.attributes) = 2
  /\ def.options.primaryKey.kind = "array"
  /\ def.options.constraints.present
  /\ def.options.strict /\ def.options.withoutRowid /\ def.options.temporary
  /\ result.kind = "returned"

(***************************************************************************)
(* C5: the statement holds `IF NOT EXISTS ` exactly when                   *)
(* options.ifNotExists is set, and then right after `CREATE TABLE ` or     *)
(* `CREATE VIRTUAL TABLE ` and right before the table name; otherwise the  *)
(* table name follows the TABLE keyword directly.                          *)
(***************************************************************************)
C5_IfNotExistsPlacement ==
  (call # "none" /\ result.kind = "returned") =>
    LET sql == result.sql
        keyword == IF def.options.virtual.present THEN "CREATE VIRTUAL TABLE" ELSE "CREATE TABLE"
    IN  IF def.options.ifNotExists
        THEN /\ StartsWith(sql, <<keyword, SP, "IF NOT EXISTS", SP, def.tableName>>)
             /\ Count(sql, "IF NOT EXISTS") = 1
        ELSE /\ StartsWith(sql, <<keyword, SP, def.tableName>>)
             /\ Count(sql, "IF NOT EXISTS") = 0

C5_Witness ==
  /\ call = "generateCreateTableSQL"
  /\ def.options.ifNotExists
  /\ ~def.options.virtual.present
  /\ def.attributes # << >>
  /\ result.kind = "returned"
  /\ Count(result.sql, "IF NOT EXISTS") = 1

(***************************************************************************)
(* C7: without a virtual option the statement is                           *)
(* CREATE TABLE [IF NOT EXISTS ]<tableName> (<items joined by ", ">)       *)
(* followed by the enabled modifiers among STRICT, WITHOUT ROWID and       *)
(* TEMPORARY, in that order, each after a single blank.  It has exactly    *)
(* one top-level parenthesized list, which holds the column definitions    *)
(* followed by the table constraints, and no trailing blank: it ends with  *)
(* `)` when no modifier is enabled.                                        *)
(***************************************************************************)
C7_CreateTableStatement ==
  NormalPath =>
    LET sql == result.sql
        items == Items(sql)
        o == def.options
        modifiers == (IF o.strict THEN <<SP, "STRICT">> ELSE << >>)
                     \o (IF o.withoutRowid THEN <<SP, "WITHOUT ROWID">> ELSE << >>)
                     \o (IF o.temporary THEN <<SP, "TEMPORARY">> ELSE << >>)
        head == <<"CREATE TABLE", SP>>
                \o (IF o.ifNotExists THEN <<"IF NOT EXISTS", SP>> ELSE << >>)
                \o <<def.tableName, SP, "(">>
        n == Len(def.attributes)
    IN  /\ result.kind = "returned"
        /\ StartsWith(sql, head)
        /\ Cardinality(TopLevelLists(sql)) = 1
        /\ \A i \in 1..Len(items) : WellFormed(items[i])
        \* the list is the items joined by ", ", closed, then the modifiers
        /\ Len(sql) = Len(head) + SumLen(items) + 2 * (IF items = << >> THEN 0 ELSE Len(items) - 1)
                      + 1 + Len(modifiers)
        /\ Len(sql) >= Len(head) + 1 + Len(modifiers)
        /\ SubSeq(sql, Len(sql) - Len(modifiers), Len(sql)) = <<")">> \o modifiers
        /\ sql[Len(sql)] # SP
        /\ (modifiers = << >> => sql[Len(sql)] = ")")
        \* the columns, in the declared order, then the table constraints
        /\ Len(items) >= n
        /\ \A i \in 1..Len(items) :
             IF i <= n
             THEN Head(items[i]) = (IF o.underscored THEN snakeCase(def.attributes[i].name)
                                    ELSE def.attributes[i].name)
             ELSE Head(items[i]) \in {"CONSTRAINT", "PRIMARY KEY"}

C7_Witness ==
  /\ NormalPath
  /\ def.options.strict /\ def.options.withoutRowid /\ def.options.temporary
  /\ def.options.ifNotExists
  /\ Len(def.attributes) = 2
  /\ Len(Items(result.sql)) > Len(def.attributes)

C7_WitnessNoModifier ==
  /\ NormalPath
  /\ ~def.options.strict /\ ~def.options.withoutRowid /\ ~def.options.temporary
  /\ result.sql[Len(result.sql)] = ")"

(***************************************************************************)
(* C6: an entry of options.constraints.foreignKey yields an item           *)
(* CONSTRAINT name FOREIGN KEY (...) REFERENCES table(...) if and only if  *)
(* its field list is not empty and its references are present; a skipped   *)
(* entry leaves no trace (no empty item, no stray ", "); an emitted entry  *)
(* carries ON DELETE, ON UPDATE and DEFERRABLE INITIALLY only for the      *)
(* options that are set and ends without a blank.  An entry of             *)
(* options.constraints.unique is emitted if and only if its column list is *)
(* not empty, and every entry of options.constraints.check is emitted.     *)
(***************************************************************************)
ConstraintsDeclared == NormalPath /\ def.options.constraints.present

C6_TableConstraintEntries ==
  ConstraintsDeclared =>
    LET items == Items(result.sql)
        c == def.options.constraints
        uniques == IF c.hasUnique THEN c.unique ELSE << >>
        checks == IF c.hasCheck THEN c.check ELSE << >>
        foreignKeys == IF c.hasForeignKey THEN c.foreignKey ELSE << >>
        Named(entries) == {entries[i].name : i \in 1..Len(entries)}
        Of(kind, entries) ==
          SelectSeq(items, LAMBDA it : Len(it) >= 5 /\ it[1] = "CONSTRAINT" /\ it[5] = kind
                                       /\ it[3] \in Named(entries))
        keptUniques == SelectSeq(uniques, LAMBDA u : u.fields # << >>)
        keptForeignKeys == SelectSeq(foreignKeys, LAMBDA fk : fk.fields # << >> /\ fk.hasReferences)
        suffix(fk) ==
          (IF fk.onDelete # "" THEN <<SP, "ON DELETE", SP, fk.onDelete>> ELSE << >>)
          \o (IF fk.onUpdate # "" THEN <<SP, "ON UPDATE", SP, fk.onUpdate>> ELSE << >>)
          \o (IF fk.deferrable
              THEN <<SP, "DEFERRABLE INITIALLY", SP, IF fk.deferred THEN "DEFERRED" ELSE "IMMEDIATE">>
              ELSE << >>)
        prefix(fk) ==
          <<"CONSTRAINT", SP, fk.name, SP, "FOREIGN KEY", SP, "(">> \o Listed(fk.fields)
          \o <<")", SP, "REFERENCES", SP, fk.references.table, "(">>
        IsForeignKeyItem(it, fk) ==
          /\ StartsWith(it, prefix(fk))
          /\ Len(it) > Len(prefix(fk)) + Len(suffix(fk))
          /\ SubSeq(it, Len(it) - Len(suffix(fk)), Len(it)) = <<")">> \o suffix(fk)
          /\ Count(it, "ON DELETE") = (IF fk.onDelete # "" THEN 1 ELSE 0)
          /\ Count(it, "ON UPDATE") = (IF fk.onUpdate # "" THEN 1 ELSE 0)
          /\ Count(it, "DEFERRABLE INITIALLY") = (IF fk.deferrable THEN 1 ELSE 0)
    IN  /\ result.kind = "returned"
        /\ \A i \in 1..Len(items) : WellFormed(items[i])
        /\ Count(result.sql, "FOREIGN KEY") = Len(keptForeignKeys)
        /\ Len(Of("FOREIGN KEY", foreignKeys)) = Len(keptForeignKeys)
        /\ \A k \in 1..Len(keptForeignKeys) :
             IsForeignKeyItem(Of("FOREIGN KEY", foreignKeys)[k], keptForeignKeys[k])
        /\ Of("UNIQUE", uniques)
             = [k \in 1..Len(keptUniques) |->
                  <<"CONSTRAINT", SP, keptUniques[k].name, SP, "UNIQUE", SP, "(">>
                  \o Listed(keptUniques[k].fields) \o <<")">>]
        /\ Of("CHECK", checks)
             = [k \in 1..Len(checks) |->
                  <<"CONSTRAINT", SP, checks[k].name, SP, "CHECK", SP, "(",
                    checks[k].expression, ")">>]

C6_Witness ==
  /\ ConstraintsDeclared
  /\ def.options.constraints.hasForeignKey
  /\ Len(def.options.constraints.foreignKey) = 2
  /\ def.options.constraints.foreignKey[1].fields = << >>
  /\ def.options.constraints.foreignKey[2].fields # << >>
  /\ def.options.constraints.hasUnique
  /\ \E i \in 1..Len(def.options.constraints.unique) :
       def.options.constraints.unique[i].fields = << >>
  /\ Count(result.sql, "FOREIGN KEY") = 1

(***************************************************************************)
(* C8: a column definition is the resolved column name (snake_case when    *)
(* options.underscored), then the clauses that apply, separated by single  *)
(* blanks and always in the order: native type, PRIMARY KEY, AUTOINCREMENT *)
(* (only right after an emitted PRIMARY KEY), NOT NULL (only when          *)
(* allowNull is exactly false), UNIQUE, DEFAULT, CHECK, COLLATE (only when *)
(* the native type is TEXT), GENERATED ALWAYS AS (...) STORED|VIRTUAL,     *)
(* REFERENCES table(column), ON DELETE, ON UPDATE, DEFERRABLE INITIALLY    *)
(* DEFERRED|IMMEDIATE (the last three only when references is set).        *)
(* Columns come in the attribute map's order.  {id: {type STRING,          *)
(* primaryKey true, allowNull false}} on table Users gives                 *)
(* CREATE TABLE Users (id TEXT PRIMARY KEY NOT NULL).                      *)
(***************************************************************************)
ClauseKeywords ==
  <<"PRIMARY KEY", "AUTOINCREMENT", "NOT NULL", "UNIQUE", "DEFAULT", "CHECK", "COLLATE",
    "GENERATED ALWAYS AS", "REFERENCES", "ON DELETE", "ON UPDATE", "DEFERRABLE INITIALLY">>

Rank(keyword) == CHOOSE r \in 1..Len(ClauseKeywords) : ClauseKeywords[r] = keyword

IsKeyword(atom) == \E r \in 1..Len(ClauseKeywords) : ClauseKeywords[r] = atom

ColumnAsClaimed(item, attr, underscored) ==
  LET col == IF underscored THEN snakeCase(attr.name) ELSE attr.name
      type == mapDataType(attr.type)
      at == {p \in 1..Len(item) : IsKeyword(item[p])}
      Has(keyword) == Count(item, keyword) = 1
      None(keyword) == Count(item, keyword) = 0
  IN  /\ StartsWith(item, <<col, SP, type>>)
      /\ WellFormed(item)
      \* the clauses in the fixed order, each at most once, each after one blank
      /\ \A p, q \in at : p < q => Rank(item[p]) < Rank(item[q])
      /\ \A p \in at : p > 2 /\ item[p - 1] = SP /\ item[p - 2] # SP
      /\ Len(item) > 3 => item[4] = SP /\ 5 \in at
      \* the clauses that apply
      /\ Has("PRIMARY KEY") \/ None("PRIMARY KEY")
      /\ Has("PRIMARY KEY") => attr.primaryKey
      /\ \A p \in at : item[p] = "AUTOINCREMENT" => (attr.autoIncrement /\ item[p - 2] = "PRIMARY KEY")
      /\ IF attr.allowNull = "false" THEN Has("NOT NULL") ELSE None("NOT NULL")
      /\ IF attr.unique.kind = "boolean" /\ attr.unique.flag THEN Has("UNIQUE") ELSE None("UNIQUE")
      /\ IF attr.defaultValue.kind # "undefined" THEN Has("DEFAULT") ELSE None("DEFAULT")
      /\ IF attr.check # "" THEN Has("CHECK") ELSE None("CHECK")
      /\ IF type = "TEXT" /\ attr.collate # "" THEN Has("COLLATE") ELSE None("COLLATE")
      /\ IF attr.generated.present
         THEN Has("GENERATED ALWAYS AS")
              /\ Count(item, IF attr.generated.stored THEN "STORED" ELSE "VIRTUAL") = 1
         ELSE None("GENERATED ALWAYS AS")
      /\ IF attr.references.present THEN Has("REFERENCES") ELSE None("REFERENCES")
      /\ IF attr.references.present /\ attr.onDelete # "" THEN Has("ON DELETE") ELSE None("ON DELETE")
      /\ IF attr.references.present /\ attr.onUpdate # "" THEN Has("ON UPDATE") ELSE None("ON UPDATE")
      /\ IF attr.references.present /\ attr.deferrable
         THEN Has("DEFERRABLE INITIALLY")
              /\ item[Len(item)] = (IF attr.deferred THEN "DEFERRED" ELSE "IMMEDIATE")
         ELSE None("DEFERRABLE INITIALLY")

C8_ColumnDefinitions ==
  NormalPath =>
    LET items == Items(result.sql) IN
    /\ result.kind = "returned"
    /\ Len(items) >= Len(def.attributes)
    /\ \A i \in 1..Len(def.attributes) :
         ColumnAsClaimed(items[i], def.attributes[i], def.options.underscored)
    /\ (def = Definition("Users", SubSeq(TestAttributes, 1, 1),
                         Options(NoVirtual, FALSE, NoPrimaryKey, NoConstraints, NoModifiers, FALSE)))
         => Flatten(result.sql) = "CREATE TABLE Users (id TEXT PRIMARY KEY NOT NULL)"

C8_Witness ==
  /\ NormalPath
  /\ Len(def.attributes) = 1
  /\ def.options.underscored
  /\ def.attributes[1].name = "userId"
  /\ \A r \in 1..Len(ClauseKeywords) : Count(result.sql, ClauseKeywords[r]) = 1

(***************************************************************************)
(* C9: an attribute whose unique field is boolean true, a constraint name  *)
(* or an object with a name yields exactly one uniqueness constraint on    *)
(* its resolved column name: an inline UNIQUE when it is boolean true,     *)
(* otherwise no inline UNIQUE and one table constraint                     *)
(* CONSTRAINT <name> UNIQUE (<column>) with the column name of the column  *)
(* definition, placed after all column definitions and before the          *)
(* options-level PRIMARY KEY and options.constraints items.  An attribute  *)
(* with unique unset or false yields none (nor does one whose name is      *)
(* empty or missing).                                                      *)
(***************************************************************************)
InlineUnique(attr) == attr.unique.kind = "boolean" /\ attr.unique.flag

NamedUnique(attr) == attr.unique.kind \in {"string", "object"} /\ attr.unique.name # ""

C9_AttributeUniqueness ==
  NormalPath =>
    LET items == Items(result.sql)
        n == Len(def.attributes)
        named == SelectSeq(def.attributes, NamedUnique)
        c == def.options.constraints
        Named(has, entries) == IF c.present /\ has THEN {entries[i].name : i \in 1..Len(entries)} ELSE {}
        optionNames == Named(c.hasUnique, c.unique) \cup Named(c.hasCheck, c.check)
                       \cup Named(c.hasForeignKey, c.foreignKey)
    IN  /\ Len(items) >= n + Len(named)
        /\ \A i \in 1..n :
             Count(items[i], "UNIQUE") = (IF InlineUnique(def.attributes[i]) THEN 1 ELSE 0)
        /\ \A j \in 1..Len(named) :
             \E i \in 1..n :
               /\ def.attributes[i] = named[j]
               /\ items[n + j] = <<"CONSTRAINT", SP, named[j].unique.name, SP, "UNIQUE", SP,
                                   "(", Head(items[i]), ")">>
               /\ Head(items[i]) = (IF def.options.underscored THEN snakeCase(named[j].name)
                                    ELSE named[j].name)
        /\ \A k \in (n + Len(named) + 1)..Len(items) :
             \/ Head(items[k]) = "PRIMARY KEY"
             \/ (Len(items[k]) >= 3 /\ Head(items[k]) = "CONSTRAINT" /\ items[k][3] \in optionNames)

C9_Witness ==
  /\ NormalPath
  /\ def.options.underscored
  /\ Len(def.attributes) = 2
  /\ InlineUnique(def.attributes[1])
  /\ def.attributes[2].unique.kind = "object" /\ NamedUnique(def.attributes[2])
  /\ def.options.primaryKey.kind = "array"
  /\ def.options.constraints.present
  /\ Count(result.sql, "UNIQUE") = 3

(***************************************************************************)
(* C10: in the SELECT of findAll the number of `?` placeholders equals the *)
(* number of values bound to the statement, and the i-th bound value is    *)
(* the converted value of the i-th placeholder's key, in key order: a key  *)
(* whose value is undefined gives no clause and no value, a key whose      *)
(* converted value is null gives `key IS NULL` and no value, any other key *)
(* gives `key = ?` and one value; WHERE is emitted if and only if a clause *)
(* remains, the clauses joined by ` AND `.                                 *)
(***************************************************************************)
C10_PlaceholdersMatchValues ==
  call = "findAll" =>
    LET where == IF options.hasWhere THEN options.where ELSE << >>
        kept == SelectSeq(where, LAMBDA e : e.value.kind # "undefined")
        converted == [i \in 1..Len(kept) |-> convertValueForSQLite(kept[i].value)]
        clause == [i \in 1..Len(kept) |->
                     (IF i = 1 THEN <<SP, "WHERE", SP>> ELSE <<SP, "AND", SP>>)
                     \o (IF converted[i].kind = "null" THEN <<kept[i].key, SP, "IS NULL">>
                         ELSE <<kept[i].key, SP, "=", SP, "?">>)]
        start(i) == Len(<<"SELECT * FROM", SP, def.tableName>>) + SumLen(SubSeq(clause, 1, i - 1))
    IN  /\ Count(query.sql, "?") = Len(query.bound)
        /\ query.bound = SelectSeq(converted, LAMBDA v : v.kind # "null")
        /\ Count(query.sql, "WHERE") = (IF kept = << >> THEN 0 ELSE 1)
        /\ Count(query.sql, "AND") = (IF kept = << >> THEN 0 ELSE Len(kept) - 1)
        /\ StartsWith(query.sql, <<"SELECT * FROM", SP, def.tableName>>)
        /\ \A i \in 1..Len(kept) :
             SubSeq(query.sql, start(i) + 1, start(i) + Len(clause[i])) = clause[i]

C10_Witness ==
  /\ call = "findAll"
  /\ Len(options.where) = 2
  /\ options.where[1].value.kind = "null"
  /\ options.where[2].value.kind = "boolean"
  /\ Len(query.bound) = 1
  /\ Count(query.sql, "?") = 1

C10_WitnessAllUndefined ==
  /\ call = "findAll"
  /\ options.hasWhere
  /\ Len(options.where) = 2
  /\ \A i \in 1..2 : options.where[i].value.kind = "undefined"
  /\ Count(query.sql, "WHERE") = 0

====
